---- MODULE Spec2Model ----
(***************************************************************************)
(* Model of ocrmypdf/builtin_plugins/tesseract_ocr.py: the check_options   *)
(* and validate hooks and the TesseractOcrEngine text-layer calls, run by  *)
(* a page-parallel pipeline.                                               *)
(*                                                                         *)
(* A Python str is a sequence of one-character strings.  The character     *)
(* written "^2" stands for U+00B2 (SUPERSCRIPT TWO): str.isnumeric()       *)
(* accepts it and int() rejects it.                                        *)
(***************************************************************************)
EXTENDS Integers, Sequences, FiniteSets, TLC

VARIABLES
    environ,          \* os.environ restricted to OMP_THREAD_LIMIT
    tess_threads,     \* validate's local tess_threads (0: not bound)
    exc,              \* what the last validate call raised ("none": returned)
    last,             \* arguments and pre-state of the last validate call
    prev,             \* budget computed in the previous process
    writes,           \* number of assignments to os.environ in this process
    frozen,           \* environment value after the first validate that returned
    child_env,        \* OMP_THREAD_LIMIT inherited by the last child process
    options,          \* the options namespace
    pdfinfo,          \* len(pdfinfo), the page count of the document
    probe,            \* what check_external_program finds
    has_thresholding, \* tesseract.has_thresholding()
    pc,               \* stage of the run
    exit,             \* how the run ended
    log,              \* warnings emitted, in order
    page,             \* page -> state of its engine invocation
    elapsed,          \* page -> wall-clock seconds of its running child
    call,             \* page -> the engine call made for it
    fallback          \* page -> what the caller is told to do with the page

budget_vars == <<environ, tess_threads, exc, last, prev, writes, frozen, child_env>>

run_vars == <<options, pdfinfo, probe, has_thresholding, pc, exit, log>>

page_vars == <<page, elapsed, call, fallback>>

vars == <<budget_vars, run_vars, page_vars>>

----------------------------------------------------------------------------
(* Bounds *)

MaxLen == 1          \* longest enumerated pre-set OMP_THREAD_LIMIT string
MaxW == 8            \* largest options.jobs given to validate on its own
MaxP == 10           \* largest len(pdfinfo) given to validate on its own
MaxWrites == 2       \* cap of the ghost counter of environment writes
MaxJobs == 3         \* largest options.jobs of a modelled run
MaxPages == 3        \* largest page count of a modelled run
MaxTimeout == 1      \* largest options.tesseract_timeout, in clock ticks

----------------------------------------------------------------------------
(* Python strings *)

DecimalChars == {"0", "1", "2", "3", "4", "5", "6", "7", "8", "9"}

\* Characters with Unicode Numeric_Type Digit or Numeric that are not decimal.
NumericOnlyChars == {"^2"}

Alphabet == {"0", "1", "2", "3", "5", "^2", "-", "+", ".", "a"}

RECURSIVE StringsOfLen(_)
StringsOfLen(n) ==
    IF n = 0 THEN {<<>>}
    ELSE {Append(s, c) : s \in StringsOfLen(n - 1), c \in Alphabet}

Strings == UNION {StringsOfLen(n) : n \in 0..MaxLen}
               \cup {<<"a", "b", "c">>, <<"1", ".", "5">>, <<"-", "1">>,
                     <<"+", "5">>, <<"1", "2">>, <<"0", "0", "7">>, <<"1", "^2">>}

\* str.isnumeric(): at least one character, and all of them numeric.
isnumeric(s) ==
    /\ Len(s) > 0
    /\ \A i \in 1..Len(s) : s[i] \in DecimalChars \cup NumericOnlyChars

IsDecimalString(s) ==
    /\ Len(s) > 0
    /\ \A i \in 1..Len(s) : s[i] \in DecimalChars

DigitValue(c) ==
    CASE c = "0" -> 0 [] c = "1" -> 1 [] c = "2" -> 2 [] c = "3" -> 3
      [] c = "4" -> 4 [] c = "5" -> 5 [] c = "6" -> 6 [] c = "7" -> 7
      [] c = "8" -> 8 [] c = "9" -> 9

DigitChar(d) ==
    CASE d = 0 -> "0" [] d = 1 -> "1" [] d = 2 -> "2" [] d = 3 -> "3"
      [] d = 4 -> "4" [] d = 5 -> "5" [] d = 6 -> "6" [] d = 7 -> "7"
      [] d = 8 -> "8" [] d = 9 -> "9"

\* int(s) of a string of decimal digits (the only isnumeric strings int accepts).
RECURSIVE int(_)
int(s) ==
    IF Len(s) = 0 THEN 0
    ELSE 10 * int(SubSeq(s, 1, Len(s) - 1)) + DigitValue(s[Len(s)])

\* int(s) raises ValueError on an isnumeric string holding a non-decimal character.
int_raises(s) == ~IsDecimalString(s)

\* str(n) of a non-negative int.
RECURSIVE str(_)
str(n) ==
    IF n < 10 THEN <<DigitChar(n)>>
    ELSE Append(str(n \div 10), DigitChar(n % 10))

----------------------------------------------------------------------------
(* os.environ *)

Unset == [present |-> FALSE, value |-> <<>>]

EnvSet(s) == [present |-> TRUE, value |-> s]

\* os.environ.get('OMP_THREAD_LIMIT', default)
environ_get(env, default) == IF env.present THEN env.value ELSE default

Environments == {Unset} \cup {EnvSet(s) : s \in Strings}

----------------------------------------------------------------------------
(* validate *)

\* ocrmypdf.helpers.clamp
clamp(x, lo, hi) == IF x < lo THEN lo ELSE IF x > hi THEN hi ELSE x

\* Faulty variants of line 128: a lower clamp bound of 0, the quotient
\* inverted, and the page count left out.
compute_lower_bound_0(jobs, npages) == clamp(jobs \div npages, 0, 3)

compute_pages_over_jobs(jobs, npages) == clamp(npages \div jobs, 1, 3)

compute_ignores_pages(jobs, npages) == clamp(jobs, 1, 3)

\* Line 128, for len(pdfinfo) > 0:  clamp(options.jobs // len(pdfinfo), 1, 3)
compute_tess_threads(jobs, npages) == clamp(jobs \div npages, 1, 3)

Result(env, t, e, w) == [environ |-> env, tess_threads |-> t, exc |-> e, wrote |-> w]

\* The branch of lines 128-129.
compute_and_publish(env, jobs, npages) ==
    IF npages = 0
    THEN Result(env, 0, "ZeroDivisionError", FALSE)
    ELSE LET t == compute_tess_threads(jobs, npages)
         IN  Result(EnvSet(str(t)), t, "none", TRUE)

\* The branch of line 131.
adopt(env) ==
    IF int_raises(env.value)
    THEN Result(env, 0, "ValueError", FALSE)
    ELSE Result(env, int(env.value), "none", FALSE)

\* Faulty variants of validate: without the isnumeric test, with the else
\* branch recomputing instead of reading the override, and with a
\* ConfigurationError for a present value that is not numeric.
validate_always_recomputes(env, jobs, npages) ==
    compute_and_publish(env, jobs, npages)

validate_recomputes_locally(env, jobs, npages) ==
    IF ~isnumeric(environ_get(env, <<>>))
    THEN compute_and_publish(env, jobs, npages)
    ELSE IF npages = 0
         THEN Result(env, 0, "ZeroDivisionError", FALSE)
         ELSE Result(env, compute_tess_threads(jobs, npages), "none", FALSE)

validate_rejects_bad_override(env, jobs, npages) ==
    IF env.present /\ ~isnumeric(env.value)
    THEN Result(env, 0, "ConfigurationError", FALSE)
    ELSE IF ~isnumeric(environ_get(env, <<>>))
         THEN compute_and_publish(env, jobs, npages)
         ELSE adopt(env)

\* validate(pdfinfo, options), lines 117-132, with jobs = options.jobs and
\* npages = len(pdfinfo).
validate(env, jobs, npages) ==
    IF ~isnumeric(environ_get(env, <<>>))
    THEN compute_and_publish(env, jobs, npages)
    ELSE adopt(env)

NoCall ==
    [called |-> FALSE, jobs |-> 0, npages |-> 0, before |-> Unset, wrote |-> FALSE]

NoPrev == [valid |-> FALSE, jobs |-> 0, npages |-> 0, budget |-> 0]

NotFrozen == [set |-> FALSE, value |-> <<>>]

Min(a, b) == IF a < b THEN a ELSE b

\* One call of the validate hook and the bookkeeping that observes it.
ValidateCall(w, p) ==
    LET r == validate(environ, w, p)
    IN  /\ environ' = r.environ
        /\ tess_threads' = r.tess_threads
        /\ exc' = r.exc
        /\ last' = [called |-> TRUE, jobs |-> w, npages |-> p, before |-> environ,
                    wrote |-> r.wrote]
        /\ writes' = IF r.wrote THEN Min(writes + 1, MaxWrites) ELSE writes
        /\ frozen' = IF ~frozen.set /\ r.exc = "none"
                     THEN [set |-> TRUE, value |-> r.environ.value]
                     ELSE frozen

----------------------------------------------------------------------------
(* check_options *)

None == -1           \* Python's None, for an option that was not given

Thresholdings == 0..3     \* auto, legacy-otsu, adaptive-otsu, sauvola

PageSegModes == {None} \cup 0..13

Renderers == {"auto", "hocr", "sandwich"}

Probes == {"ok", "EngineUnavailable", "EngineVersionTooOld"}

ThresholdingWarning == "thresholding"

PageSegModeWarning == "pagesegmode"

Checked(opts, warnings, e) == [options |-> opts, warnings |-> warnings, exc |-> e]

\* Faulty variants of check_options: without the thresholding warning, and
\* with the page-segmentation warning given for modes 0 and 1.
check_options_never_warns_thresholding(opts, probed, has_thr) ==
    IF probed # "ok"
    THEN Checked(opts, <<>>, probed)
    ELSE Checked(
           [opts EXCEPT !.pdf_renderer = IF @ = "auto" THEN "sandwich" ELSE @],
           IF opts.tesseract_pagesegmode \in {0, 2}
               THEN <<PageSegModeWarning>> ELSE <<>>,
           "none")

check_options_warns_modes_0_1(opts, probed, has_thr) ==
    IF probed # "ok"
    THEN Checked(opts, <<>>, probed)
    ELSE Checked(
           [opts EXCEPT !.pdf_renderer = IF @ = "auto" THEN "sandwich" ELSE @],
           (IF ~has_thr /\ opts.tesseract_thresholding # 0
               THEN <<ThresholdingWarning>> ELSE <<>>)
           \o (IF opts.tesseract_pagesegmode \in {0, 1}
               THEN <<PageSegModeWarning>> ELSE <<>>),
           "none")

\* check_options(options), lines 90-114.  check_external_program raises
\* before anything else is done when the probe fails.
check_options(opts, probed, has_thr) ==
    IF probed # "ok"
    THEN Checked(opts, <<>>, probed)
    ELSE Checked(
           [opts EXCEPT !.pdf_renderer = IF @ = "auto" THEN "sandwich" ELSE @],
           (IF ~has_thr /\ opts.tesseract_thresholding # 0
               THEN <<ThresholdingWarning>> ELSE <<>>)
           \o (IF opts.tesseract_pagesegmode \in {0, 2}
               THEN <<PageSegModeWarning>> ELSE <<>>),
           "none")

----------------------------------------------------------------------------
(* TesseractOcrEngine and the bounded invocation of the external engine *)

NoTimeout == None     \* no timeout keyword: the child has no deadline

Omitted == None      \* an option left out of the engine's command line

EngineCall(op, opts, timeout) ==
    [op |-> op, timeout |-> timeout,
     pagesegmode |-> opts.tesseract_pagesegmode,
     thresholding |-> opts.tesseract_thresholding]

\* TesseractOcrEngine.generate_hocr, lines 171-185
generate_hocr(opts) == EngineCall("generate_hocr", opts, opts.tesseract_timeout)

\* Faulty variant of generate_pdf: the timeout keyword is not passed.
generate_pdf_without_timeout(opts) == EngineCall("generate_pdf", opts, NoTimeout)

\* TesseractOcrEngine.generate_pdf, lines 187-201
generate_pdf(opts) == EngineCall("generate_pdf", opts, opts.tesseract_timeout)

\* The pipeline asks for the text layer in the mode of the renderer.
generate_text_layer(opts) ==
    IF opts.pdf_renderer = "hocr" THEN generate_hocr(opts) ELSE generate_pdf(opts)

\* Threads the child may use: the OMP_THREAD_LIMIT it inherits (0: no limit).
thread_limit(env) ==
    IF env.present /\ IsDecimalString(env.value) THEN int(env.value) ELSE 0

\* The child process launched for an engine call: thresholding goes on the
\* command line only when the probed engine supports it.
spawn(kw, has_thr, env) ==
    [op |-> kw.op, timeout |-> kw.timeout, thresholding |-> kw.thresholding,
     arg_thresholding |-> IF has_thr THEN kw.thresholding ELSE Omitted,
     threads |-> thread_limit(env)]

NoEngineCall ==
    [op |-> "none", timeout |-> NoTimeout, thresholding |-> Omitted,
     arg_thresholding |-> Omitted, threads |-> 0]

Pages == 1..pdfinfo

Running == {pg \in Pages : page[pg] = "Running"}

Terminal == {"Completed", "TimedOut", "Failed"}

----------------------------------------------------------------------------
(* A run of the pipeline: check_options, validate, then the pages on a pool *)
(* of options.jobs workers.                                                 *)

DefaultOptions ==
    [jobs |-> 1, pdf_renderer |-> "auto", tesseract_thresholding |-> 0,
     tesseract_pagesegmode |-> None, tesseract_timeout |-> 0]

InitRun(Envs, Jobs, PageCounts, Timeouts, Rends, Thrs, Psms, Prbs) ==
    /\ environ \in Envs
    /\ tess_threads = 0
    /\ exc = "none"
    /\ last = NoCall
    /\ prev = NoPrev
    /\ writes = 0
    /\ frozen = NotFrozen
    /\ child_env = Unset
    /\ options \in [jobs : Jobs, pdf_renderer : Rends,
                    tesseract_thresholding : Thrs,
                    tesseract_pagesegmode : Psms,
                    tesseract_timeout : Timeouts]
    /\ pdfinfo \in PageCounts
    /\ probe \in Prbs
    /\ has_thresholding \in BOOLEAN
    /\ pc = "check_options"
    /\ exit = "none"
    /\ log = <<>>
    /\ page = [pg \in 1..pdfinfo |-> "Pending"]
    /\ elapsed = [pg \in 1..pdfinfo |-> 0]
    /\ call = [pg \in 1..pdfinfo |-> NoEngineCall]
    /\ fallback = [pg \in 1..pdfinfo |-> "none"]

RunEnvironments ==
    {Unset, EnvSet(<<>>), EnvSet(<<"5">>), EnvSet(<<"^2">>)}

\* Runs with the default engine options, on several pages and workers.
Init ==
    InitRun(RunEnvironments, 1..MaxJobs, 0..MaxPages, 0..MaxTimeout,
            {"auto", "hocr"}, {0}, {None}, {"ok"})

CheckOptions ==
    /\ pc = "check_options"
    /\ LET r == check_options(options, probe, has_thresholding)
       IN  /\ options' = r.options
           /\ log' = log \o r.warnings
           /\ pc' = IF r.exc = "none" THEN "validate" ELSE "aborted"
           /\ exit' = IF r.exc = "none" THEN exit ELSE r.exc
    /\ UNCHANGED <<budget_vars, pdfinfo, probe, has_thresholding, page_vars>>

Validate ==
    /\ pc = "validate"
    /\ ValidateCall(options.jobs, pdfinfo)
    /\ pc' = IF exc' = "none" THEN "pages" ELSE "aborted"
    /\ exit' = IF exc' = "none" THEN exit ELSE exc'
    /\ UNCHANGED <<prev, child_env, options, pdfinfo, probe, has_thresholding,
                   log, page_vars>>

StartInvocation(pg) ==
    /\ pc = "pages"
    /\ page[pg] = "Pending"
    /\ Cardinality(Running) < options.jobs
    /\ page' = [page EXCEPT ![pg] = "Running"]
    /\ call' = [call EXCEPT
                  ![pg] = spawn(generate_text_layer(options), has_thresholding,
                                environ)]
    /\ child_env' = environ
    /\ UNCHANGED <<environ, tess_threads, exc, last, prev, writes, frozen,
                   run_vars, elapsed, fallback>>

\* A second of wall-clock time passes for the child of page pg.
Tick(pg) ==
    /\ pc = "pages"
    /\ page[pg] = "Running"
    /\ elapsed[pg] <= (IF call[pg].timeout = NoTimeout
                       THEN MaxTimeout ELSE call[pg].timeout)
    /\ elapsed' = [elapsed EXCEPT ![pg] = @ + 1]
    /\ UNCHANGED <<budget_vars, run_vars, page, call, fallback>>

InTime(pg) ==
    call[pg].timeout = NoTimeout \/ elapsed[pg] <= call[pg].timeout

Leave(pg, state, action) ==
    /\ page' = [page EXCEPT ![pg] = state]
    /\ fallback' = [fallback EXCEPT ![pg] = action]
    /\ elapsed' = [elapsed EXCEPT ![pg] = 0]
    /\ UNCHANGED <<budget_vars, run_vars, call>>

Complete(pg) ==
    /\ pc = "pages"
    /\ page[pg] = "Running"
    /\ InTime(pg)
    /\ Leave(pg, "Completed", "use_text_layer")

TimeOut(pg) ==
    /\ pc = "pages"
    /\ page[pg] = "Running"
    /\ ~InTime(pg)
    /\ Leave(pg, "TimedOut", "use_preocr_page")

Fail(pg) ==
    /\ pc = "pages"
    /\ page[pg] = "Running"
    /\ InTime(pg)
    /\ Leave(pg, "Failed", "page_error")

Finish ==
    /\ pc = "pages"
    /\ \A pg \in Pages : page[pg] \in Terminal
    /\ pc' = "done"
    /\ exit' = "ok"
    /\ UNCHANGED <<budget_vars, options, pdfinfo, probe, has_thresholding, log,
                   page_vars>>

\* The pipeline's policy may abort the document on a page's hard error.
AbortOnFailure ==
    /\ pc = "pages"
    /\ \E pg \in Pages : page[pg] = "Failed"
    /\ pc' = "aborted"
    /\ exit' = "page_failed"
    /\ UNCHANGED <<budget_vars, options, pdfinfo, probe, has_thresholding, log,
                   page_vars>>

Next ==
    \/ CheckOptions
    \/ Validate
    \/ \E pg \in Pages : StartInvocation(pg)
    \/ \E pg \in Pages : Tick(pg)
    \/ \E pg \in Pages : Complete(pg)
    \/ \E pg \in Pages : TimeOut(pg)
    \/ \E pg \in Pages : Fail(pg)
    \/ Finish
    \/ AbortOnFailure

Spec == Init /\ [][Next]_vars

\* The pool hands a pending page to a free worker, clocks advance and a child
\* exits or is killed: some enabled step is eventually taken.
FairSpec == Spec /\ WF_vars(Next)

\* Runs over every engine option and probe result, on few pages.
OptPages == 1

InitOptions ==
    InitRun({Unset}, {1, 2}, 0..OptPages, {1}, Renderers, Thresholdings,
            PageSegModes, Probes)

SpecOptions == InitOptions /\ [][Next]_vars

----------------------------------------------------------------------------
(* The thread budget on its own: validate called any number of times in a   *)
(* process, with children spawned in between.                               *)

InitBudget ==
    /\ InitRun(Environments, {1}, {0}, {0}, {"auto"}, {0}, {None}, {"ok"})
    /\ has_thresholding

ValidateAny(w, p) ==
    /\ ValidateCall(w, p)
    /\ UNCHANGED <<prev, child_env, run_vars, page_vars>>

\* An engine call spawns a child that inherits OMP_THREAD_LIMIT.
SpawnChild ==
    /\ child_env # environ
    /\ child_env' = environ
    /\ UNCHANGED <<environ, tess_threads, exc, last, prev, writes, frozen,
                   run_vars, page_vars>>

NextBudget ==
    \/ \E w \in 1..MaxW, p \in 0..MaxP : ValidateAny(w, p)
    \/ SpawnChild

SpecBudget == InitBudget /\ [][NextBudget]_vars

----------------------------------------------------------------------------
(* The budgets of successive processes, each started without an override    *)
(* and validating one document.                                             *)

InitProcesses ==
    /\ InitRun({Unset}, {1}, {0}, {0}, {"auto"}, {0}, {None}, {"ok"})
    /\ has_thresholding

FirstValidate(w, p) ==
    /\ ~last.called
    /\ ValidateCall(w, p)
    /\ UNCHANGED <<prev, child_env, run_vars, page_vars>>

\* The process ends and a new one starts without an override; the budget the
\* old one computed is remembered for comparison.
NewProcess ==
    /\ last.called
    /\ environ' = Unset
    /\ prev' = IF exc = "none"
               THEN [valid |-> TRUE, jobs |-> last.jobs, npages |-> last.npages,
                     budget |-> tess_threads]
               ELSE NoPrev
    /\ tess_threads' = 0
    /\ exc' = "none"
    /\ last' = NoCall
    /\ writes' = 0
    /\ frozen' = NotFrozen
    /\ child_env' = Unset
    /\ UNCHANGED <<run_vars, page_vars>>

NextProcesses ==
    \/ \E w \in 1..MaxW, p \in 0..MaxP : FirstValidate(w, p)
    \/ NewProcess

SpecProcesses == InitProcesses /\ [][NextProcesses]_vars

----------------------------------------------------------------------------
(* Properties of the thread budget *)

RECURSIVE Pow10(_)
Pow10(n) == IF n = 0 THEN 1 ELSE 10 * Pow10(n - 1)

\* The number a decimal numeral denotes, most significant digit first.
RECURSIVE Numeral(_)
Numeral(s) ==
    IF s = <<>> THEN 0
    ELSE DigitValue(Head(s)) * Pow10(Len(s) - 1) + Numeral(Tail(s))

\* floor(w / p) for w >= 0 and p >= 1, by its defining inequalities.
Floor(w, p) == CHOOSE q \in 0..w : q * p <= w /\ w < (q + 1) * p

\* clamp(floor(w / p), 1, 3), as a numeral.
ExpectedBudget(w, p) ==
    LET q == Floor(w, p)
    IN  IF q <= 1 THEN 1 ELSE IF q = 2 THEN 2 ELSE 3

BudgetNumeral(b) == CASE b = 1 -> <<"1">> [] b = 2 -> <<"2">> [] b = 3 -> <<"3">>

\* The last validate call found no override and was given at least one page
\* and one worker.
ComputedWithoutOverride ==
    /\ last.called
    /\ ~last.before.present
    /\ last.jobs >= 1
    /\ last.npages >= 1

\* C2: OMP_THREAD_LIMIT is assigned at most once in a process, and once a
\* validate call has returned, every later validate call (whatever its worker
\* and page counts) and every child spawned in between leave the variable at
\* the value it had when that first call returned.
C2_WrittenOnceThenFrozen ==
    /\ [](writes <= 1)
    /\ [](frozen.set => environ = EnvSet(frozen.value))
    /\ [][frozen.set => environ' = environ /\ writes' = writes]_vars

C2_Witness ==
    /\ writes = 1
    /\ frozen.set
    /\ last.called
    /\ last.before = EnvSet(frozen.value)
    /\ last.jobs = 8
    /\ last.npages = 1
    /\ environ = EnvSet(<<"1">>)
    /\ child_env = environ

\* C3: when the environment holds a decimal numeral before validate runs, the
\* budget validate uses is the number it denotes, whatever the page and worker
\* counts, and the call leaves the environment value as it was.
C3_OverrideAdopted ==
    (last.called /\ last.before.present /\ IsDecimalString(last.before.value))
        => /\ exc = "none"
           /\ tess_threads = Numeral(last.before.value)
           /\ environ = last.before
           /\ ~last.wrote

C3_Witness ==
    /\ last.called
    /\ last.before = EnvSet(<<"1", "2">>)
    /\ last.jobs = 8
    /\ last.npages = 1
    /\ tess_threads = 12
    /\ environ = EnvSet(<<"1", "2">>)

C5_ZeroPagesTreatedAsOne ==
    (last.called /\ ~last.before.present /\ last.npages = 0 /\ last.jobs >= 1)
        => /\ exc = "none"
           /\ tess_threads = ExpectedBudget(last.jobs, 1)
           /\ environ = EnvSet(BudgetNumeral(ExpectedBudget(last.jobs, 1)))

\* C6: with no override, at least one page and at least one worker, the
\* budget validate computes lies in 1..3, and a process given the same worker
\* count and no fewer pages than an earlier process computes no larger a
\* budget than that process did.
C6_BudgetRangeAndMonotone ==
    ComputedWithoutOverride
        => /\ exc = "none"
           /\ 1 <= tess_threads
           /\ tess_threads <= 3
           /\ (prev.valid /\ prev.jobs = last.jobs /\ prev.npages <= last.npages)
                  => tess_threads <= prev.budget
           /\ (prev.valid /\ prev.jobs = last.jobs /\ prev.npages >= last.npages)
                  => tess_threads >= prev.budget

C6_Witness ==
    /\ ComputedWithoutOverride
    /\ prev.valid
    /\ prev.jobs = last.jobs
    /\ prev.npages < last.npages
    /\ prev.budget = 3
    /\ tess_threads = 1

\* C7: with no override, at least one page and at least one worker, validate
\* returns and the value it publishes in the environment is the numeral of
\* clamp(floor(w / p), 1, 3); w=4,p=1 publishes 3, w=4,p=10 publishes 1 and
\* w=8,p=2 publishes 3.
C7_PublishedBudget ==
    ComputedWithoutOverride
        => /\ exc = "none"
           /\ environ = EnvSet(BudgetNumeral(ExpectedBudget(last.jobs, last.npages)))
           /\ thread_limit(environ) = tess_threads
           /\ (last.jobs = 4 /\ last.npages = 1) => environ = EnvSet(<<"3">>)
           /\ (last.jobs = 4 /\ last.npages = 10) => environ = EnvSet(<<"1">>)
           /\ (last.jobs = 8 /\ last.npages = 2) => environ = EnvSet(<<"3">>)

C7_Witness ==
    /\ ComputedWithoutOverride
    /\ last.jobs = 8
    /\ last.npages = 2
    /\ writes = 1
    /\ environ = EnvSet(<<"3">>)

----------------------------------------------------------------------------
(* Properties of a run *)

Count(seq, x) == Cardinality({i \in 1..Len(seq) : seq[i] = x})

RECURSIVE SumThreads(_)
SumThreads(S) ==
    IF S = {} THEN 0
    ELSE LET pg == CHOOSE x \in S : TRUE
         IN  call[pg].threads + SumThreads(S \ {pg})

Overdue(pg) == page[pg] = "Running" /\ elapsed[pg] > options.tesseract_timeout

\* C1: an invocation that has run longer than options.tesseract_timeout can
\* only go on to TimedOut, and TimedOut is entered only from such a Running
\* invocation; the caller of a timed-out page is told to use the page as it
\* was before OCR; a step that times one page out changes nothing of any
\* other page, and a page's outcome never changes once it has one; the run is
\* aborted during page processing only when some page Failed, so timeouts
\* alone never abort it, and every run ends: done, or aborted for a stated
\* cause.
C1_TimeoutContained ==
    /\ <>(pc \in {"done", "aborted"})
    /\ [](pc = "done" => \A pg \in Pages : page[pg] \in Terminal)
    /\ [](\A pg \in Pages : page[pg] = "TimedOut" => fallback[pg] = "use_preocr_page")
    /\ []((pc = "aborted" /\ exit = "page_failed") => \E pg \in Pages : page[pg] = "Failed")
    /\ []((last.called /\ exc = "none" /\ \A pg \in Pages : page[pg] # "Failed")
              => pc \in {"pages", "done"})
    /\ [][\A pg \in Pages :
            (Overdue(pg) /\ page'[pg] # page[pg]) => page'[pg] = "TimedOut"]_vars
    /\ [][\A pg \in Pages :
            (page'[pg] = "TimedOut" /\ page[pg] # "TimedOut")
                => /\ Overdue(pg)
                   /\ pc' = pc
                   /\ \A other \in Pages \ {pg} :
                         /\ page'[other] = page[other]
                         /\ fallback'[other] = fallback[other]
                         /\ elapsed'[other] = elapsed[other]
                         /\ call'[other] = call[other]]_vars
    /\ [][\A pg \in Pages :
            page[pg] \in Terminal
                => page'[pg] = page[pg] /\ fallback'[pg] = fallback[pg]]_vars

C1_Witness ==
    /\ pc = "pages"
    /\ pdfinfo = 3
    /\ page[1] = "TimedOut"
    /\ fallback[1] = "use_preocr_page"
    /\ page[2] = "Running"
    /\ elapsed[2] = 1
    /\ page[3] = "Completed"

C9_PageSegModeWarning ==
    probe = "ok"
        => /\ pc = "check_options"
                 => /\ log = <<>>
                    /\ \A pg \in Pages : page[pg] = "Pending"
           /\ pc # "check_options"
                 => Count(log, PageSegModeWarning)
                        = (IF options.tesseract_pagesegmode \in {0, 2} THEN 1 ELSE 0)
           /\ pc = "aborted" => exit \in {"ZeroDivisionError", "page_failed"}

C9_Witness ==
    /\ probe = "ok"
    /\ options.tesseract_pagesegmode = 2
    /\ pc = "validate"
    /\ Count(log, PageSegModeWarning) = 1
    /\ pdfinfo = 1
    /\ page[1] = "Pending"

\* C10: when validate computed and published the budget for this run, the
\* number of invocations running at once is at most min(options.jobs, page
\* count) and the thread limits of the running children add up to at most
\* options.jobs.
C10_ThreadsWithinJobs ==
    (last.called /\ ~last.before.present /\ exc = "none")
        => /\ Cardinality(Running) <= Min(options.jobs, pdfinfo)
           /\ \A pg \in Running : call[pg].threads = tess_threads
           /\ SumThreads(Running) <= options.jobs

C10_Witness ==
    /\ last.called
    /\ ~last.before.present
    /\ options.jobs = 2
    /\ pdfinfo = 3
    /\ Cardinality(Running) = 2
    /\ SumThreads(Running) = 2

====
